---- MODULE Spec2Model ----
(***************************************************************************)
(* A model of stockbot's main.py: the Alpha Vantage quote resolver         *)
(* (fetch_quote, _daily_close), the Slack /price coordinator (cmd_price,   *)
(* build_price_text, post_to_response_url) and the in-memory watchlist     *)
(* (cmd_watchlist, build_watchlist_text).                                  *)
(*                                                                         *)
(* Python values are strings: None is "None", a float is "float:<repr>",   *)
(* text is kept as a sequence of pieces (an f-string's parts in order).    *)
(* Durations are in tenths of a second.                                    *)
(***************************************************************************)
EXTENDS Naturals, Sequences, FiniteSets, TLC

\* ------------------------------------------------------------------ bounds
\* symbols named after add / remove in one command
MaxTickers == 2
\* how long an upstream call that does answer takes
QuickLatency == 1

\* ------------------------------------------------------- program constants
\* fetch_quote(text, timeout=2.4) in cmd_price
FastTimeout == 24
\* def fetch_quote(ticker, timeout=2.8)
DefaultTimeout == 28
\* max(2.0, timeout) in the fallback call
DailyFloor == 20

\* ------------------------------------------------------------ Python values
None == "None"

Max(a, b) == IF a >= b THEN a ELSE b

\* bool(x) of a str-or-None value, as (x or y) evaluates it
Truthy(x) == x \notin {None, ""}

\* x or y
PyOr(x, y) == IF Truthy(x) THEN x ELSE y

\* float(s): the strings the upstream can send and what CPython parses them to
FloatOf == [s \in {"189.50", "-1.20", "-5.00", "0.0000", "nan", "inf"} |->
              CASE s = "189.50" -> "float:189.5"
                [] s = "-1.20"  -> "float:-1.2"
                [] s = "-5.00"  -> "float:-5.0"
                [] s = "0.0000" -> "float:0.0"
                [] s = "nan"    -> "float:nan"
                [] s = "inf"    -> "float:inf"]

\* float(x) raises ValueError (a str that is no number) or TypeError (None)
FloatRaises(s) == s \notin DOMAIN FloatOf

Float(s) == FloatOf[s]

Zero == "float:0.0"

Finite(x) == x \in {"float:189.5", "float:-1.2", "float:-5.0", "float:0.0"}

NonNegative(x) == x \in {"float:189.5", "float:0.0", "float:inf"}

\* f"{x:.2f}"
Fmt2(x) == CASE x = "float:189.5" -> "189.50"
             [] x = "float:-1.2"  -> "-1.20"
             [] x = "float:-5.0"  -> "-5.00"
             [] x = "float:0.0"   -> "0.00"
             [] x = "float:nan"   -> "nan"
             [] x = "float:inf"   -> "inf"

\* f"{x:.4f}"
Fmt4(x) == CASE x = "float:189.5" -> "189.5000"
             [] x = "float:-1.2"  -> "-1.2000"
             [] x = "float:-5.0"  -> "-5.0000"
             [] x = "float:0.0"   -> "0.0000"
             [] x = "float:nan"   -> "nan"
             [] x = "float:inf"   -> "inf"

\* Upper leaving the case of its argument as it is
UpperAsTyped(s) == s

\* str.upper() on the words a command can carry
Upper(s) == CASE s = "aapl" -> "AAPL"
              [] s = "msft" -> "MSFT"
              [] OTHER      -> s

\* the order of str comparison (sorted, the latest ISO date)
LexOrder == <<"2024-01-02", "2024-01-03", "AAPL", "MSFT">>

Rank(s) == CHOOSE i \in 1..Len(LexOrder) : LexOrder[i] = s

StrMin(S) == CHOOSE s \in S : \A u \in S : Rank(s) <= Rank(u)

StrMax(S) == CHOOSE s \in S : \A u \in S : Rank(u) <= Rank(s)

RECURSIVE Sorted(_)
Sorted(S) == IF S = {} THEN <<>> ELSE <<StrMin(S)>> \o Sorted(S \ {StrMin(S)})

\* ------------------------------------------------------- upstream payloads
\* A decoded JSON body: its type, its top-level keys (the elements of an array),
\* whether its text holds Alpha Vantage's "Thank you for using ..." notice, the
\* value under the quote key and the value under "Time Series (Daily)".
QuoteKeys == {"05. price", "05.price", "09. change", "09.change",
              "10. change percent", "10.change percent"}

Dates == {"2024-01-02", "2024-01-03"}

NoDict == [k \in QuoteKeys |-> None]

NoQuote == [type |-> "None", f |-> NoDict]

NoSeries == [type |-> "None", days |-> {}, close |-> [d \in Dates |-> None]]

Body(type, keys, thanks, quote, series) ==
    [type |-> type, keys |-> keys, thanks |-> thanks, quote |-> quote, series |-> series]

\* {}
EmptyObj == Body("object", {}, FALSE, NoQuote, NoSeries)

QuoteDict(px, chg, pct) ==
    [type |-> "dict",
     f |-> [k \in QuoteKeys |-> CASE k = "05. price"          -> px
                                  [] k = "09. change"         -> chg
                                  [] k = "10. change percent" -> pct
                                  [] OTHER                    -> None]]

LiveQuote(px, chg, pct) ==
    Body("object", {"Global Quote"}, FALSE, QuoteDict(px, chg, pct), NoSeries)

Series(days, close) ==
    Body("object", {"Meta Data", "Time Series (Daily)"}, FALSE, NoQuote,
         [type |-> "dict", days |-> days, close |-> close])

Notice == Body("object", {"Note"}, TRUE, NoQuote, NoSeries)

\* the quota notice Alpha Vantage sends under "Information"
InfoNotice == Body("object", {"Information"}, TRUE, NoQuote, NoSeries)

ErrorMsg == Body("object", {"Error Message"}, FALSE, NoQuote, NoSeries)

JsonNull == Body("null", {}, FALSE, NoQuote, NoSeries)

JsonArray == Body("array", {}, FALSE, NoQuote, NoSeries)

ValidQuote == LiveQuote("189.50", "-1.20", "-0.63%")

\* a response: the call answered ("ok", with a JSON body), failed (connection
\* error, body that is no JSON) or ran into its timeout
Ok(body) == [net |-> "ok", body |-> body]

NetError == [net |-> "error", body |-> EmptyObj]

TimedOut == [net |-> "timeout", body |-> EmptyObj]

LiveBodies ==
    { ValidQuote,
      LiveQuote("189.50", None, None),
      LiveQuote("189.50", "n/a", "-0.63%"),
      LiveQuote("nan", "0.0000", "0.00%"),
      LiveQuote("-5.00", "-1.20", "-0.63%"),
      LiveQuote("n/a", "-1.20", "-0.63%"),
      Body("object", {"GlobalQuote"}, FALSE,
           [type |-> "dict", f |-> [NoDict EXCEPT !["05.price"] = "189.50"]], NoSeries),
      LiveQuote(None, None, None),
      Body("object", {"Global Quote"}, FALSE, [type |-> "str", f |-> NoDict], NoSeries),
      EmptyObj, ErrorMsg, Notice, InfoNotice, JsonNull, JsonArray }

DailyBodies ==
    { Series(Dates, [d \in Dates |-> IF d = "2024-01-03" THEN "189.50" ELSE "-5.00"]),
      Series({"2024-01-02"}, [d \in Dates |-> IF d = "2024-01-02" THEN "nan" ELSE None]),
      Series({"2024-01-02"}, [d \in Dates |-> IF d = "2024-01-02" THEN "n/a" ELSE None]),
      Series({"2024-01-03"}, [d \in Dates |-> None]),
      Series({}, [d \in Dates |-> None]),
      Body("object", {"Time Series (Daily)"}, FALSE, NoQuote,
           [type |-> "list", days |-> {"2024-01-03"}, close |-> [d \in Dates |-> None]]),
      EmptyObj, ErrorMsg, Notice, InfoNotice, JsonNull, JsonArray }

LiveResponses == {Ok(b) : b \in LiveBodies} \cup {NetError, TimedOut}

DailyResponses == {Ok(b) : b \in DailyBodies} \cup {NetError, TimedOut}

\* the upstream behaviours the command handlers are run against
CmdLive == {Ok(ValidQuote), Ok(Notice), Ok(EmptyObj), Ok(JsonNull), TimedOut}

CmdDaily ==
    { Ok(Series(Dates, [d \in Dates |-> IF d = "2024-01-03" THEN "189.50" ELSE "-5.00"])),
      Ok(Notice), Ok(EmptyObj), Ok(JsonNull), TimedOut }

\* how long requests.get(url, timeout=timeout) lasts
Duration(resp, timeout) == IF resp.net = "timeout" THEN timeout ELSE QuickLatency

\* ---------------------------------------------------- Alpha Vantage helpers
\* "Note" in payload: raises TypeError when payload is None
InRaises(payload) == payload.type = "null"

_is_rate_limited(payload) == ("Note" \in payload.keys) \/ payload.thanks

_is_info_or_error(payload) ==
    ("Information" \in payload.keys) \/ ("Error Message" \in payload.keys)

\* payload.get(...) raises AttributeError unless payload is a dict
GetRaises(payload) == payload.type # "object"

\* d.get(k) of a dict of fields
Get(d, k) == d[k]

\* the outcome tuples
RateLimited == <<"RATE_LIMIT", None, None, None>>

Unavailable == <<None, None, None, None>>

\* j after the try around requests.get(...).json(): the body, {} after an exception
LivePayload(resp) == IF resp.net = "ok" THEN resp.body ELSE EmptyObj

\* _daily_close after the GET: "raise", or "return" with (src, close_px)
DailyCloseOf(resp) ==
    LET j == resp.body
        ts == IF "Time Series (Daily)" \in j.keys THEN j.series ELSE NoSeries
        latest_day == StrMax(ts.days)
        close == ts.close[latest_day]
    IN  IF resp.net # "ok" THEN [how |-> "return", v |-> <<None, None>>]
        ELSE IF InRaises(j) THEN [how |-> "raise", v |-> <<None, None>>]
        ELSE IF _is_rate_limited(j) THEN [how |-> "return", v |-> <<"RATE_LIMIT", None>>]
        ELSE IF _is_info_or_error(j) THEN [how |-> "return", v |-> <<None, None>>]
        ELSE IF GetRaises(j) THEN [how |-> "raise", v |-> <<None, None>>]
        ELSE IF ts.type # "dict" \/ ts.days = {}
             THEN [how |-> "return", v |-> <<None, None>>]
        ELSE IF FloatRaises(close) THEN [how |-> "return", v |-> <<None, None>>]
        ELSE [how |-> "return", v |-> <<"DAILY", Float(close)>>]

\* LiveOf with the quota notice not ending the call: it goes on to the fallback
LiveOfIgnoringNotice(resp) ==
    LET j == LivePayload(resp)
        gq == IF "Global Quote" \in j.keys \/ "GlobalQuote" \in j.keys
              THEN j.quote ELSE NoQuote
        truthy == gq.type = "str" \/ (gq.type = "dict" /\ gq.f # NoDict)
        quote == IF truthy THEN gq ELSE [type |-> "dict", f |-> NoDict]
        px == PyOr(Get(quote.f, "05. price"), Get(quote.f, "05.price"))
        chg == PyOr(Get(quote.f, "09. change"), Get(quote.f, "09.change"))
        pct == PyOr(Get(quote.f, "10. change percent"), Get(quote.f, "10.change percent"))
    IN  IF InRaises(j) THEN [how |-> "raise", v |-> Unavailable]
        ELSE IF GetRaises(j) \/ quote.type # "dict" THEN [how |-> "raise", v |-> Unavailable]
        ELSE IF px # None /\ ~FloatRaises(px) /\ (~Truthy(chg) \/ ~FloatRaises(chg))
             THEN [how |-> "return",
                   v |-> <<Float(px), IF Truthy(chg) THEN Float(chg) ELSE Zero,
                           PyOr(pct, "0.00%"), "GLOBAL">>]
        ELSE [how |-> "fallback", v |-> Unavailable]

\* fetch_quote from the GET's answer to its first return, raise or the fallback
LiveOf(resp) ==
    LET j == LivePayload(resp)
        gq == IF "Global Quote" \in j.keys \/ "GlobalQuote" \in j.keys
              THEN j.quote ELSE NoQuote
        truthy == gq.type = "str" \/ (gq.type = "dict" /\ gq.f # NoDict)
        quote == IF truthy THEN gq ELSE [type |-> "dict", f |-> NoDict]
        px == PyOr(Get(quote.f, "05. price"), Get(quote.f, "05.price"))
        chg == PyOr(Get(quote.f, "09. change"), Get(quote.f, "09.change"))
        pct == PyOr(Get(quote.f, "10. change percent"), Get(quote.f, "10.change percent"))
    IN  IF InRaises(j) THEN [how |-> "raise", v |-> Unavailable]
        ELSE IF _is_rate_limited(j) THEN [how |-> "return", v |-> RateLimited]
        ELSE IF GetRaises(j) \/ quote.type # "dict" THEN [how |-> "raise", v |-> Unavailable]
        ELSE IF px # None /\ ~FloatRaises(px) /\ (~Truthy(chg) \/ ~FloatRaises(chg))
             THEN [how |-> "return",
                   v |-> <<Float(px), IF Truthy(chg) THEN Float(chg) ELSE Zero,
                           PyOr(pct, "0.00%"), "GLOBAL">>]
        ELSE [how |-> "fallback", v |-> Unavailable]

\* fetch_quote after _daily_close has returned (src, close_px); "--" is the em dash
AfterDaily(d) ==
    IF d[1] = "RATE_LIMIT" THEN RateLimited
    ELSE IF d[2] # None THEN <<d[2], Zero, "--", "DAILY">>
    ELSE Unavailable

\* ------------------------------------------------------------------ state
\* the requests served at the same time (Flask serves each request on a thread of
\* its own): two slots, each serving one request after another
Cmds == {1, 2}

\* the request thread and the background thread of a command
H(c) == <<c, "req">>

B(c) == <<c, "bg">>

Threads == Cmds \X {"req", "bg"}

Words == {"AAPL", "aapl"}

SlackUrl == "https://hooks.slack.com/commands/1"

\* request.form.get("response_url"): Slack's, or none
Urls == {"", SlackUrl}

VARIABLES
    ALPHA_KEY,   \* os.getenv("ALPHA_KEY", "").strip()
    watchlist,   \* the module-level set
    form,        \* per command: the route, and what it reads of request.form later on
    pc,          \* per thread: where it stands
    fq,          \* per thread: the locals of its fetch_quote call
    hl,          \* per command: the locals of the request handler
    bl,          \* per command: the locals of the background thread's target
    reply,       \* per command: what the handler returned to Slack
    posts        \* per command: the POSTs attempted to response_url

vars == <<ALPHA_KEY, watchlist, form, pc, fq, hl, bl, reply, posts>>

NoResp == [net |-> "none", body |-> EmptyObj]

NoForm == [route |-> "none", text |-> "", response_url |-> ""]

\* a request is given to the first free slot
Free(c) ==
    /\ pc[H(c)] = "idle" /\ pc[B(c)] = "idle"
    /\ \A d \in Cmds : d < c => pc[H(d)] # "idle"

NoCall == [ticker |-> "", timeout |-> 0, live |-> NoResp, daily |-> NoResp,
           gets |-> <<>>, spent |-> 0, q |-> Unavailable]

\* (q: what the fast path's fetch_quote returned to cmd_price;
\*  before: the watchlist as the command found it, kept for the record)
NoReq == [tickers |-> <<>>, i |-> 0, removed |-> <<>>, missing |-> <<>>, before |-> {},
          q |-> <<>>]

\* (pauses: the time.sleep(0.4) calls of the listing so far)
NoBg == [snap |-> <<>>, i |-> 0, lines |-> <<>>, pauses |-> 0, text |-> <<>>]

NoReply == [status |-> 0, response_type |-> "", text |-> <<>>]

\* str.strip()
Strip(s) == CASE s = " msft " -> "msft"
              [] OTHER       -> s

\* t = ticker.strip().upper() and the URL of the GLOBAL_QUOTE call
NewCall(ticker, timeout) ==
    [NoCall EXCEPT !.ticker = Upper(Strip(ticker)), !.timeout = timeout]

\* jsonify(response_type=..., text=...), 200
Json(response_type, text) ==
    [status |-> 200, response_type |-> response_type, text |-> text]

\* Flask's answer to a handler that raised
Error500 == [status |-> 500, response_type |-> "", text |-> <<>>]

\* ------------------------------------------------------------------- texts
\* (the delta sign, the ellipsis and the emoji are written in ASCII)
GlobalText(T, q) == <<T, ": $", Fmt2(q[1]), " (delta ", Fmt4(q[2]), ", ", q[3], ")">>

DailyText(T, q) == <<T, ": $", Fmt2(q[1]), " (latest daily close)">>

KeyMissingText(T) == <<T, ": Alpha Vantage API key missing.">>

RateLimitText(T) == <<T, ": Alpha Vantage free-tier rate limit hit. Try again in ~15-60s.">>

NoQuoteText(T) == <<T, ": No quote returned for that symbol right now.">>

Working == <<"Working...">>

Usage == <<"Usage: /price AAPL">>

Invalid == <<"Invalid. Use: /watchlist add TICKER [TICKER...], /watchlist remove TICKER [TICKER...], /watchlist list">>

EmptyText == <<"Watchlist is empty.">>

RECURSIVE Join(_, _)
\* sep.join(items), the items being pieces of text
Join(sep, items) ==
    IF items = <<>> THEN <<>>
    ELSE IF Len(items) = 1 THEN items[1]
    ELSE items[1] \o <<sep>> \o Join(sep, Tail(items))

RECURSIVE JoinWords(_, _)
\* sep.join(words)
JoinWords(sep, words) ==
    IF words = <<>> THEN <<>>
    ELSE IF Len(words) = 1 THEN <<words[1]>>
    ELSE <<words[1], sep>> \o JoinWords(sep, Tail(words))

\* HasPrice taking a live quote alone for an answer
HasPriceLiveOnly(q) == q[4] = "GLOBAL"

\* q and q[0] not in (None, "RATE_LIMIT")
HasPrice(q) == q[1] \notin {None, "RATE_LIMIT"}

\* the reply of the fast path, and a line of the listing, for a quote with a price
QuoteText(T, q) == IF q[4] = "GLOBAL" THEN GlobalText(T, q) ELSE DailyText(T, q)

\* build_price_text after fetch_quote has returned
PriceTextOf(T, q) ==
    IF q[1] = "RATE_LIMIT" THEN RateLimitText(T)
    ELSE IF q[1] = None THEN NoQuoteText(T)
    ELSE QuoteText(T, q)

\* one line of build_watchlist_text
LineOf(t, q) ==
    IF HasPrice(q) THEN QuoteText(t, q)
    ELSE IF q[1] = "RATE_LIMIT" THEN <<t, ": rate limited (try later)">>
    ELSE <<t, ": (no data)">>

WatchlistText(lines) == <<"Watchlist:", "\n">> \o Join("\n", lines)

\* str.lower() on the first word of /watchlist
Lower(s) == CASE s = "LIST" -> "list"
              [] s = "Add"  -> "add"
              [] OTHER      -> s

\* [p.upper() for p in parts[1:]]
UpperAll(ws) == [k \in 1..Len(ws) |-> Upper(ws[k])]

\* -------------------------------------------------------------------- Init
Init ==
    /\ ALPHA_KEY \in {"", "demo"}
    /\ watchlist = {}
    /\ form = [c \in Cmds |-> NoForm]
    /\ pc = [t \in Threads |-> "idle"]
    /\ fq = [t \in Threads |-> NoCall]
    /\ hl = [c \in Cmds |-> NoReq]
    /\ bl = [c \in Cmds |-> NoBg]
    /\ reply = [c \in Cmds |-> NoReply]
    /\ posts = [c \in Cmds |-> <<>>]

\* ------------------------------------------------------------- fetch_quote
\* requests.get(gq_url, timeout=timeout) answers, and fetch_quote runs on to its
\* return, to an exception or to the call of _daily_close
FqLive(t, resp) ==
    /\ pc[t] = "fq_live"
    /\ LET o == LiveOf(resp) IN
        /\ fq' = [fq EXCEPT ![t] = [@ EXCEPT !.live = resp,
                                             !.gets = Append(@, "live"),
                                             !.spent = @ + Duration(resp, fq[t].timeout),
                                             !.q = o.v]]
        /\ pc' = [pc EXCEPT ![t] = CASE o.how = "return"   -> "fq_ret"
                                     [] o.how = "raise"    -> "fq_raise"
                                     [] o.how = "fallback" -> "fq_daily"]
    /\ UNCHANGED <<ALPHA_KEY, watchlist, form, hl, bl, reply, posts>>

\* the timeout fetch_quote hands to _daily_close
DailyTimeout(timeout) == Max(DailyFloor, timeout)

\* FqDaily asking the daily-close endpoint a second time after a timeout
FqDailyAgain(t, resp) ==
    /\ pc[t] = "fq_daily"
    /\ LET o == DailyCloseOf(resp) IN
        /\ fq' = [fq EXCEPT ![t] =
                    [@ EXCEPT !.daily = resp,
                              !.gets = Append(@, "daily"),
                              !.spent = @ + Duration(resp, DailyTimeout(fq[t].timeout)),
                              !.q = IF o.how = "return" THEN AfterDaily(o.v) ELSE Unavailable]]
        /\ pc' = [pc EXCEPT ![t] = IF resp.net = "timeout" /\ Len(fq[t].gets) < 2
                                   THEN "fq_daily"
                                   ELSE IF o.how = "return" THEN "fq_ret" ELSE "fq_raise"]
    /\ UNCHANGED <<ALPHA_KEY, watchlist, form, hl, bl, reply, posts>>

\* requests.get(url, timeout=timeout) of _daily_close answers, _daily_close
\* returns or raises, and fetch_quote returns what it makes of it
FqDaily(t, resp) ==
    /\ pc[t] = "fq_daily"
    /\ LET o == DailyCloseOf(resp) IN
        /\ fq' = [fq EXCEPT ![t] =
                    [@ EXCEPT !.daily = resp,
                              !.gets = Append(@, "daily"),
                              !.spent = @ + Duration(resp, DailyTimeout(fq[t].timeout)),
                              !.q = IF o.how = "return" THEN AfterDaily(o.v) ELSE Unavailable]]
        /\ pc' = [pc EXCEPT ![t] = IF o.how = "return" THEN "fq_ret" ELSE "fq_raise"]
    /\ UNCHANGED <<ALPHA_KEY, watchlist, form, hl, bl, reply, posts>>

\* ------------------------------------------------------------------ /price
\* Slack posts the command; cmd_price runs up to the GET of the fast path
ReceivePrice(c, text, url) ==
    /\ Free(c)
    /\ form' = [form EXCEPT ![c] = [route |-> "price", text |-> text, response_url |-> url]]
    /\ IF text = ""
       THEN /\ reply' = [reply EXCEPT ![c] = Json("in_channel", Usage)]
            /\ pc' = [pc EXCEPT ![H(c)] = "returned"]
            /\ fq' = fq
       ELSE /\ fq' = [fq EXCEPT ![H(c)] = NewCall(text, FastTimeout)]
            /\ pc' = [pc EXCEPT ![H(c)] = "fq_live"]
            /\ reply' = reply
    /\ UNCHANGED <<ALPHA_KEY, watchlist, hl, bl, posts>>

\* the fast path after fetch_quote has returned: reply now, or go on to the slow path
PriceFast(c) ==
    /\ form[c].route = "price"
    /\ pc[H(c)] = "fq_ret"
    /\ LET q == fq[H(c)].q
           text == form[c].text
       IN  IF HasPrice(q)
           THEN /\ reply' = [reply EXCEPT ![c] = Json("in_channel", QuoteText(Upper(text), q))]
                /\ pc' = [pc EXCEPT ![H(c)] = "returned"]
           ELSE /\ pc' = [pc EXCEPT ![H(c)] = "start_bg"]
                /\ reply' = reply
    /\ hl' = [hl EXCEPT ![c].q = fq[H(c)].q]
    /\ fq' = [fq EXCEPT ![H(c)] = NoCall]
    /\ UNCHANGED <<ALPHA_KEY, watchlist, form, bl, posts>>

\* threading.Thread(target=..., daemon=True).start()
StartThread(c) ==
    /\ pc[H(c)] = "start_bg"
    /\ pc' = [pc EXCEPT ![H(c)] = "ret_working", ![B(c)] = "bg_start"]
    /\ UNCHANGED <<ALPHA_KEY, watchlist, form, fq, hl, bl, reply, posts>>

\* return jsonify(response_type="ephemeral", text="Working..."), 200
ReturnWorking(c) ==
    /\ pc[H(c)] = "ret_working"
    /\ reply' = [reply EXCEPT ![c] = Json("ephemeral", Working)]
    /\ pc' = [pc EXCEPT ![H(c)] = "returned"]
    /\ UNCHANGED <<ALPHA_KEY, watchlist, form, fq, hl, bl, posts>>

\* an exception of fetch_quote leaves cmd_price: Flask answers 500
HandlerRaise(c) ==
    /\ pc[H(c)] = "fq_raise"
    /\ reply' = [reply EXCEPT ![c] = Error500]
    /\ pc' = [pc EXCEPT ![H(c)] = "raised"]
    /\ fq' = [fq EXCEPT ![H(c)] = NoCall]
    /\ UNCHANGED <<ALPHA_KEY, watchlist, form, hl, bl, posts>>

\* the thread's target starts: build_price_text(text) up to its GET, or
\* build_watchlist_text() up to sorted(watchlist)
BgStart(c) ==
    /\ pc[B(c)] = "bg_start"
    /\ IF form[c].route = "price"
       THEN IF ALPHA_KEY = ""
            THEN /\ bl' = [bl EXCEPT ![c].text = KeyMissingText(Upper(form[c].text))]
                 /\ pc' = [pc EXCEPT ![B(c)] = "post"]
                 /\ fq' = fq
            ELSE /\ fq' = [fq EXCEPT ![B(c)] = NewCall(form[c].text, DefaultTimeout)]
                 /\ pc' = [pc EXCEPT ![B(c)] = "fq_live"]
                 /\ bl' = bl
       ELSE IF watchlist = {}
            THEN /\ bl' = [bl EXCEPT ![c].text = EmptyText]
                 /\ pc' = [pc EXCEPT ![B(c)] = "post"]
                 /\ fq' = fq
            ELSE /\ pc' = [pc EXCEPT ![B(c)] = "wl_sorted"]
                 /\ UNCHANGED <<bl, fq>>
    /\ UNCHANGED <<ALPHA_KEY, watchlist, form, hl, reply, posts>>

\* build_price_text after fetch_quote has returned
PriceText(c) ==
    /\ form[c].route = "price"
    /\ pc[B(c)] = "fq_ret"
    /\ bl' = [bl EXCEPT ![c].text = PriceTextOf(Upper(form[c].text), fq[B(c)].q)]
    /\ pc' = [pc EXCEPT ![B(c)] = "post"]
    /\ fq' = [fq EXCEPT ![B(c)] = NoCall]
    /\ UNCHANGED <<ALPHA_KEY, watchlist, form, hl, reply, posts>>

\* an exception of fetch_quote leaves the thread's target: the thread ends
BgRaise(c) ==
    /\ pc[B(c)] = "fq_raise"
    /\ pc' = [pc EXCEPT ![B(c)] = "died"]
    /\ fq' = [fq EXCEPT ![B(c)] = NoCall]
    /\ bl' = [bl EXCEPT ![c] = NoBg]
    /\ UNCHANGED <<ALPHA_KEY, watchlist, form, hl, reply, posts>>

\* post_to_response_url posting again after a delivery that failed
PostWithRetry(c, outcome) ==
    /\ pc[B(c)] = "post"
    /\ IF form[c].response_url = ""
       THEN posts' = posts
       ELSE posts' = [posts EXCEPT ![c] = Append(@, [text |-> bl[c].text, outcome |-> outcome])]
    /\ IF form[c].response_url # "" /\ outcome # "ok" /\ Len(posts[c]) < 2
       THEN UNCHANGED <<pc, bl>>
       ELSE /\ pc' = [pc EXCEPT ![B(c)] = "done"]
            /\ bl' = [bl EXCEPT ![c] = NoBg]
    /\ UNCHANGED <<ALPHA_KEY, watchlist, form, fq, hl, reply>>

\* post_to_response_url(response_url, text): at most the one requests.post,
\* whose failure (an HTTP error status, an exception) is printed
post_to_response_url(c, outcome) ==
    /\ pc[B(c)] = "post"
    /\ IF form[c].response_url = ""
       THEN posts' = posts
       ELSE posts' = [posts EXCEPT ![c] = Append(@, [text |-> bl[c].text, outcome |-> outcome])]
    /\ pc' = [pc EXCEPT ![B(c)] = "done"]
    /\ bl' = [bl EXCEPT ![c] = NoBg]
    /\ UNCHANGED <<ALPHA_KEY, watchlist, form, fq, hl, reply>>

PostOutcomes == {"ok", "http_error", "exception"}

\* -------------------------------------------------------------- /watchlist
\* the words that can follow /watchlist
TickerLists == UNION {[1..n -> Words] : n \in 1..MaxTickers}

WatchlistParts ==
    {<<>>, <<"list">>, <<"LIST">>, <<"add">>, <<"show">>}
        \cup {<<"add">> \o ws : ws \in TickerLists}
        \cup {<<"remove">> \o ws : ws \in TickerLists}

\* the reply of the remove branch
RemoveText(removed, missing) ==
    LET a == IF removed # <<>> THEN <<<<"Removed: ">> \o JoinWords(", ", removed)>> ELSE <<>>
        b == IF missing # <<>> THEN <<<<"Not in list: ">> \o JoinWords(", ", missing)>> ELSE <<>>
    IN  IF a \o b = <<>> THEN <<"No changes.">> ELSE Join(". ", a \o b)

\* Slack posts the command; cmd_watchlist splits the text and picks its branch
ReceiveWatchlist(c, parts, url) ==
    /\ Free(c)
    /\ LET action == IF parts = <<>> THEN "" ELSE Lower(parts[1])
           tickers == IF Len(parts) > 1 THEN UpperAll(Tail(parts)) ELSE <<>>
       IN
        /\ form' = [form EXCEPT ![c] =
                      [route |-> "watchlist", text |-> action, response_url |-> url]]
        /\ IF parts = <<>>
           THEN /\ pc' = [pc EXCEPT ![H(c)] = "start_bg"]
                /\ UNCHANGED <<hl, reply>>
           ELSE IF action = "add" /\ tickers # <<>>
           THEN /\ pc' = [pc EXCEPT ![H(c)] = "add"]
                /\ hl' = [hl EXCEPT ![c] = [NoReq EXCEPT !.tickers = tickers, !.i = 1]]
                /\ reply' = reply
           ELSE IF action = "remove" /\ tickers # <<>>
           THEN /\ pc' = [pc EXCEPT ![H(c)] = "remove_test"]
                /\ hl' = [hl EXCEPT ![c] = [NoReq EXCEPT !.tickers = tickers, !.i = 1,
                                                          !.before = watchlist]]
                /\ reply' = reply
           ELSE IF action = "list"
           THEN /\ pc' = [pc EXCEPT ![H(c)] = "start_bg"]
                /\ UNCHANGED <<hl, reply>>
           ELSE /\ reply' = [reply EXCEPT ![c] = Json("in_channel", Invalid)]
                /\ pc' = [pc EXCEPT ![H(c)] = "returned"]
                /\ hl' = hl
    /\ UNCHANGED <<ALPHA_KEY, watchlist, fq, bl, posts>>

\* watchlist.add(t), and the reply after the last one
Add(c) ==
    /\ pc[H(c)] = "add"
    /\ LET t == hl[c].tickers[hl[c].i] IN
        /\ watchlist' = watchlist \cup {t}
        /\ IF hl[c].i < Len(hl[c].tickers)
           THEN /\ hl' = [hl EXCEPT ![c].i = @ + 1]
                /\ UNCHANGED <<pc, reply>>
           ELSE /\ reply' = [reply EXCEPT ![c] =
                        Json("in_channel", <<"Added: ">> \o JoinWords(", ", hl[c].tickers))]
                /\ pc' = [pc EXCEPT ![H(c)] = "returned"]
                /\ hl' = [hl EXCEPT ![c] = NoReq]
    /\ UNCHANGED <<ALPHA_KEY, form, fq, bl, posts>>

\* (removed if t in watchlist else missing).append(t)
RemoveTest(c) ==
    /\ pc[H(c)] = "remove_test"
    /\ LET t == hl[c].tickers[hl[c].i] IN
        hl' = IF t \in watchlist
              THEN [hl EXCEPT ![c].removed = Append(@, t)]
              ELSE [hl EXCEPT ![c].missing = Append(@, t)]
    /\ pc' = [pc EXCEPT ![H(c)] = "remove_check"]
    /\ UNCHANGED <<ALPHA_KEY, watchlist, form, fq, bl, reply, posts>>

\* the end of one round of the remove loop: the next symbol, or the reply
RemoveNext(c) ==
    IF hl[c].i < Len(hl[c].tickers)
    THEN /\ hl' = [hl EXCEPT ![c].i = @ + 1]
         /\ pc' = [pc EXCEPT ![H(c)] = "remove_test"]
         /\ reply' = reply
    ELSE /\ reply' = [reply EXCEPT ![c] =
                        Json("in_channel", RemoveText(hl[c].removed, hl[c].missing))]
         /\ pc' = [pc EXCEPT ![H(c)] = "returned"]
         /\ hl' = hl

\* if t in watchlist:
RemoveCheck(c) ==
    /\ pc[H(c)] = "remove_check"
    /\ LET t == hl[c].tickers[hl[c].i] IN
        IF t \in watchlist
        THEN /\ pc' = [pc EXCEPT ![H(c)] = "remove_del"]
             /\ UNCHANGED <<hl, reply>>
        ELSE RemoveNext(c)
    /\ UNCHANGED <<ALPHA_KEY, watchlist, form, fq, bl, posts>>

\* watchlist.remove(t): KeyError when t is no longer in the set
RemoveDel(c) ==
    /\ pc[H(c)] = "remove_del"
    /\ LET t == hl[c].tickers[hl[c].i] IN
        IF t \in watchlist
        THEN /\ watchlist' = watchlist \ {t}
             /\ RemoveNext(c)
        ELSE /\ reply' = [reply EXCEPT ![c] = Error500]
             /\ pc' = [pc EXCEPT ![H(c)] = "raised"]
             /\ UNCHANGED <<watchlist, hl>>
    /\ UNCHANGED <<ALPHA_KEY, form, fq, bl, posts>>

\* for t in sorted(watchlist): the snapshot, and the first fetch_quote(t) up to its GET
WlSorted(c) ==
    /\ pc[B(c)] = "wl_sorted"
    /\ LET snap == Sorted(watchlist) IN
        IF snap = <<>>
        THEN /\ bl' = [bl EXCEPT ![c] = [NoBg EXCEPT !.text = WatchlistText(<<>>)]]
             /\ pc' = [pc EXCEPT ![B(c)] = "post"]
             /\ fq' = fq
        ELSE /\ bl' = [bl EXCEPT ![c] = [NoBg EXCEPT !.snap = snap, !.i = 1]]
             /\ fq' = [fq EXCEPT ![B(c)] = NewCall(snap[1], DefaultTimeout)]
             /\ pc' = [pc EXCEPT ![B(c)] = "fq_live"]
    /\ UNCHANGED <<ALPHA_KEY, watchlist, form, hl, reply, posts>>

\* WlLine going on to the next symbol without the time.sleep(0.4)
WlLineNoPause(c) ==
    /\ form[c].route = "watchlist"
    /\ pc[B(c)] = "fq_ret"
    /\ LET t == bl[c].snap[bl[c].i]
           lines == Append(bl[c].lines, LineOf(t, fq[B(c)].q))
       IN  IF bl[c].i < Len(bl[c].snap)
           THEN /\ bl' = [bl EXCEPT ![c].lines = lines, ![c].i = @ + 1]
                /\ fq' = [fq EXCEPT ![B(c)] = NewCall(bl[c].snap[bl[c].i + 1], DefaultTimeout)]
                /\ pc' = [pc EXCEPT ![B(c)] = "fq_live"]
           ELSE /\ bl' = [bl EXCEPT ![c].lines = lines, ![c].text = WatchlistText(lines)]
                /\ fq' = [fq EXCEPT ![B(c)] = NoCall]
                /\ pc' = [pc EXCEPT ![B(c)] = "post"]
    /\ UNCHANGED <<ALPHA_KEY, watchlist, form, hl, reply, posts>>

\* fetch_quote(t) has returned: the symbol's line, time.sleep(0.4), and the next
\* symbol's fetch_quote up to its GET or the text of the listing
WlLine(c) ==
    /\ form[c].route = "watchlist"
    /\ pc[B(c)] = "fq_ret"
    /\ LET t == bl[c].snap[bl[c].i]
           lines == Append(bl[c].lines, LineOf(t, fq[B(c)].q))
       IN  IF bl[c].i < Len(bl[c].snap)
           THEN /\ bl' = [bl EXCEPT ![c].lines = lines, ![c].pauses = @ + 1, ![c].i = @ + 1]
                /\ fq' = [fq EXCEPT ![B(c)] = NewCall(bl[c].snap[bl[c].i + 1], DefaultTimeout)]
                /\ pc' = [pc EXCEPT ![B(c)] = "fq_live"]
           ELSE /\ bl' = [bl EXCEPT ![c].lines = lines, ![c].pauses = @ + 1,
                                     ![c].text = WatchlistText(lines)]
                /\ fq' = [fq EXCEPT ![B(c)] = NoCall]
                /\ pc' = [pc EXCEPT ![B(c)] = "post"]
    /\ UNCHANGED <<ALPHA_KEY, watchlist, form, hl, reply, posts>>

\* the request is over and its thread, if any, has ended: the slot serves the next one
Finish(c) ==
    /\ pc[H(c)] \in {"returned", "raised"}
    /\ pc[B(c)] \in {"idle", "done", "died"}
    /\ pc' = [pc EXCEPT ![H(c)] = "idle", ![B(c)] = "idle"]
    /\ form' = [form EXCEPT ![c] = NoForm]
    /\ hl' = [hl EXCEPT ![c] = NoReq]
    /\ bl' = [bl EXCEPT ![c] = NoBg]
    /\ reply' = [reply EXCEPT ![c] = NoReply]
    /\ posts' = [posts EXCEPT ![c] = <<>>]
    /\ UNCHANGED <<ALPHA_KEY, watchlist, fq>>

\* -------------------------------------------------------------------- Next
\* the response_url is read by the listing alone: the other branches are run with Slack's
UrlsOf(parts) == IF Len(parts) <= 1 THEN Urls ELSE {SlackUrl}

\* the text after /price
PriceTexts == {"", "aapl"}

Next ==
    \/ \E c \in Cmds, w \in PriceTexts, u \in Urls : ReceivePrice(c, w, u)
    \/ \E c \in Cmds, p \in WatchlistParts : \E u \in UrlsOf(p) : ReceiveWatchlist(c, p, u)
    \/ \E t \in Threads, r \in CmdLive : FqLive(t, r)
    \/ \E t \in Threads, r \in CmdDaily : FqDaily(t, r)
    \/ \E c \in Cmds : PriceFast(c)
    \/ \E c \in Cmds : StartThread(c)
    \/ \E c \in Cmds : ReturnWorking(c)
    \/ \E c \in Cmds : HandlerRaise(c)
    \/ \E c \in Cmds : BgStart(c)
    \/ \E c \in Cmds : PriceText(c)
    \/ \E c \in Cmds : BgRaise(c)
    \/ \E c \in Cmds, o \in PostOutcomes : post_to_response_url(c, o)
    \/ \E c \in Cmds : Add(c)
    \/ \E c \in Cmds : RemoveTest(c)
    \/ \E c \in Cmds : RemoveCheck(c)
    \/ \E c \in Cmds : RemoveDel(c)
    \/ \E c \in Cmds : WlSorted(c)
    \/ \E c \in Cmds : WlLine(c)
    \/ \E c \in Cmds : Finish(c)

Spec == Init /\ [][Next]_vars

\* the requests served one at a time (a server with one synchronous worker):
\* the next one is taken up once the one before and its thread have ended
OneAtATime == Cardinality({c \in Cmds : pc[H(c)] # "idle"}) <= 1

NextSeq == Next /\ OneAtATime'

SpecSeq == Init /\ [][NextSeq]_vars

\* a step of the background thread of command c: the thread is scheduled, and each
\* of its HTTP calls ends (requests.get and requests.post carry a timeout)
BgStep(c) ==
    \/ BgStart(c)
    \/ \E r \in CmdLive : FqLive(B(c), r)
    \/ \E r \in CmdDaily : FqDaily(B(c), r)
    \/ PriceText(c)
    \/ BgRaise(c)
    \/ WlSorted(c)
    \/ WlLine(c)
    \/ \E o \in PostOutcomes : post_to_response_url(c, o)

\* a step of the request thread of command c once the request is in
HandlerStep(c) ==
    \/ \E r \in CmdLive : FqLive(H(c), r)
    \/ \E r \in CmdDaily : FqDaily(H(c), r)
    \/ PriceFast(c)
    \/ HandlerRaise(c)
    \/ StartThread(c)
    \/ ReturnWorking(c)
    \/ Add(c)
    \/ RemoveTest(c)
    \/ RemoveCheck(c)
    \/ RemoveDel(c)

\* the commands served one at a time, every thread that runs scheduled fairly
SpecFair ==
    SpecSeq /\ \A c \in Cmds : WF_vars(BgStep(c)) /\ WF_vars(HandlerStep(c))

\* ---------------------------------------------------- fetch_quote on its own
\* the arguments fetch_quote is called with
FetchTickers == {"AAPL", "aapl", " msft "}

FetchTimeouts == {FastTimeout, DefaultTimeout}

Caller == H(1)

\* fetch_quote(ticker, timeout) is called, once the call before it is over
FqCall(ticker, timeout) ==
    /\ pc[Caller] \in {"idle", "fq_ret", "fq_raise"}
    /\ fq' = [fq EXCEPT ![Caller] = NewCall(ticker, timeout)]
    /\ pc' = [pc EXCEPT ![Caller] = "fq_live"]
    /\ UNCHANGED <<ALPHA_KEY, watchlist, form, hl, bl, reply, posts>>

NextFetch ==
    \/ \E k \in FetchTickers, d \in FetchTimeouts : FqCall(k, d)
    \/ \E r \in LiveResponses : FqLive(Caller, r)
    \/ \E r \in DailyResponses : FqDaily(Caller, r)

SpecFetch == Init /\ [][NextFetch]_vars

\* ------------------------------------------------- the watchlist on its own
\* /watchlist commands over two symbols, served one at a time
ListWords == {"AAPL", "aapl", "MSFT"}

ListTickerLists == UNION {[1..n -> ListWords] : n \in 1..MaxTickers}

ListParts ==
    {<<>>, <<"list">>}
        \cup {<<"add">> \o ws : ws \in ListTickerLists}
        \cup {<<"remove">> \o ws : ws \in ListTickerLists}

NextList ==
    /\ \/ \E c \in Cmds, p \in ListParts : \E u \in UrlsOf(p) : ReceiveWatchlist(c, p, u)
       \/ \E c \in Cmds, r \in CmdLive : FqLive(B(c), r)
       \/ \E c \in Cmds, r \in CmdDaily : FqDaily(B(c), r)
       \/ \E c \in Cmds : StartThread(c)
       \/ \E c \in Cmds : ReturnWorking(c)
       \/ \E c \in Cmds : BgStart(c)
       \/ \E c \in Cmds : BgRaise(c)
       \/ \E c \in Cmds, o \in PostOutcomes : post_to_response_url(c, o)
       \/ \E c \in Cmds : Add(c)
       \/ \E c \in Cmds : RemoveTest(c)
       \/ \E c \in Cmds : RemoveCheck(c)
       \/ \E c \in Cmds : RemoveDel(c)
       \/ \E c \in Cmds : WlSorted(c)
       \/ \E c \in Cmds : WlLine(c)
       \/ \E c \in Cmds : Finish(c)
    /\ OneAtATime'

SpecList == Init /\ [][NextList]_vars

\* ================================================================== claims
\* Budget: the time the fast path is given
Budget == FastTimeout

\* a quota notice, as the payload shows it
IsQuotaNotice(resp) ==
    /\ resp.net = "ok"
    /\ resp.body.type # "null"
    /\ ("Note" \in resp.body.keys \/ resp.body.thanks)

\* one of the four outcomes
IsOutcome(q) ==
    \/ q = RateLimited
    \/ q = Unavailable
    \/ q[4] = "GLOBAL" /\ q[1] \in {Float(s) : s \in DOMAIN FloatOf}
    \/ q[4] = "DAILY" /\ q[1] \in {Float(s) : s \in DOMAIN FloatOf}

\* a fetch_quote call that is over
CallOver(t) == pc[t] \in {"fq_ret", "fq_raise"}

\* C1: whatever the live and the daily endpoint answer, fetch_quote returns one of
\* Live, DailyClose, Unavailable, RateLimited and raises nothing to its caller.
FetchQuoteNeverRaises ==
    \A t \in Threads :
        /\ pc[t] # "fq_raise"
        /\ pc[t] = "fq_ret" => IsOutcome(fq[t].q)

\* C2: a call whose live answer is a quota notice returns RateLimited and has not
\* called the daily-close endpoint.
QuotaNoticeSkipsDaily ==
    \A t \in Threads :
        IsQuotaNotice(fq[t].live) =>
            /\ pc[t] = "fq_ret"
            /\ fq[t].q = RateLimited
            /\ fq[t].gets = <<"live">>
            /\ fq[t].daily = NoResp

QuotaNoticeReturned ==
    \E t \in Threads :
        /\ IsQuotaNotice(fq[t].live)
        /\ pc[t] = "fq_ret"
        /\ fq[t].q = RateLimited

\* a live payload (a JSON object) with no price field, and no quota notice
NoPriceField(resp) ==
    /\ resp.net = "ok"
    /\ resp.body.type = "object"
    /\ ~IsQuotaNotice(resp)
    /\ \/ resp.body.keys \cap {"Global Quote", "GlobalQuote"} = {}
       \/ /\ resp.body.quote.type = "dict"
          /\ resp.body.quote.f["05. price"] = None
          /\ resp.body.quote.f["05.price"] = None

\* C3: a call whose live payload has no price field (and is no quota notice) calls
\* the daily-close endpoint exactly once and returns what the fallback decides:
\* RateLimited on its quota notice, else DailyClose or Unavailable.
NoPriceDecidedByFallback ==
    \A t \in Threads :
        (CallOver(t) /\ NoPriceField(fq[t].live)) =>
            /\ pc[t] = "fq_ret"
            /\ fq[t].gets = <<"live", "daily">>
            /\ IsQuotaNotice(fq[t].daily) => fq[t].q = RateLimited
            /\ ~IsQuotaNotice(fq[t].daily) => (fq[t].q[4] = "DAILY" \/ fq[t].q = Unavailable)

\* the fast path's fetch_quote has returned q inside the time window
FastReturned(c) ==
    /\ form[c].route = "price"
    /\ pc[H(c)] = "fq_ret"
    /\ fq[H(c)].spent <= Budget

\* the formatted result is the immediate reply, and nothing runs in the background
RepliedAtOnce(c) ==
    /\ pc'[H(c)] = "returned"
    /\ reply'[c].status = 200
    /\ reply'[c].response_type = "in_channel"
    /\ reply'[c].text # Working
    /\ pc'[B(c)] = "idle"
    /\ posts'[c] = <<>>

\* C4 as stated: a fast path that returns in time with Live, DailyClose or
\* Unavailable replies with the formatted result at once and starts no thread.
FastAnswerRepliesAtOnce ==
    [][\A c \in Cmds :
        (FastReturned(c) /\ fq[H(c)].q # RateLimited /\ pc'[H(c)] # pc[H(c)])
            => RepliedAtOnce(c)]_vars

\* a /price command answered at once has no thread and no POST, then and later
AnsweredHasNoThread ==
    \A c \in Cmds :
        (form[c].route = "price" /\ reply[c].status = 200 /\ reply[c].text # Working) =>
            (pc[B(c)] = "idle" /\ posts[c] = <<>>)

\* C4 amended: a fast path that returns in time with Live or DailyClose replies with
\* the formatted result at once, and no thread is started and no POST is ever made
\* for that command; Unavailable, like RateLimited, takes the deferred branch.
FastQuoteRepliesAtOnce ==
    /\ []AnsweredHasNoThread
    /\ [][\A c \in Cmds :
            (FastReturned(c) /\ pc'[H(c)] # pc[H(c)]) =>
                IF fq[H(c)].q[4] \in {"GLOBAL", "DAILY"}
                THEN /\ RepliedAtOnce(c)
                     /\ reply'[c].text = QuoteText(Upper(form[c].text), fq[H(c)].q)
                ELSE /\ pc'[H(c)] = "start_bg"
                     /\ reply'[c] = NoReply]_vars

DailyCloseRepliedAtOnce ==
    \E c \in Cmds :
        /\ form[c].route = "price"
        /\ pc[H(c)] = "returned"
        /\ reply[c] = Json("in_channel", DailyText("AAPL", <<"float:189.5", Zero, "--", "DAILY">>))
        /\ pc[B(c)] = "idle"
        /\ posts[c] = <<>>

\* C5: the immediate reply has been returned by the time the POST to the
\* response_url is attempted.
ReplyBeforePost ==
    \A c \in Cmds : posts[c] # <<>> => pc[H(c)] = "returned"

\* C6: at most one POST is attempted per command, whatever its outcome, and the
\* handler, which has started the thread, is left to return its reply.
AtMostOnePost ==
    \A c \in Cmds :
        /\ Len(posts[c]) <= 1
        /\ posts[c] # <<>> =>
            /\ pc[H(c)] \in {"ret_working", "returned"}
            /\ reply[c] \in {NoReply, Json("ephemeral", Working)}
            /\ pc[B(c)] = "done"

FailedPostNotRetried ==
    \E c \in Cmds :
        /\ Len(posts[c]) = 1
        /\ posts[c][1].outcome = "exception"
        /\ pc[B(c)] = "done"
        /\ reply[c] = Json("ephemeral", Working)

\* every upstream call of the call ran into its timeout
AllTimedOut(call) ==
    /\ call.live.net = "timeout"
    /\ call.daily.net \in {"none", "timeout"}

\* C7: with upstream calls that do not answer before their timeout, the fast path
\* is over, and cmd_price can reply, no later than one Budget after the command.
FastPathWithinBudget ==
    \A c \in Cmds :
        (form[c].route = "price" /\ pc[H(c)] = "fq_ret" /\ AllTimedOut(fq[H(c)])) =>
            fq[H(c)].spent <= Budget

\* the texts that tell of no quote at all
NoQuoteAnswers == {Working, Usage}

\* C8: without ALPHA_KEY every resolved quote reads "API key missing": the reply of
\* the fast path, the text posted later and every line of a listing.
KeyMissingEverywhere ==
    ALPHA_KEY = "" =>
        \A c \in Cmds :
            /\ (form[c].route = "price" /\ reply[c].status = 200
                    /\ reply[c].text \notin NoQuoteAnswers)
                => reply[c].text = KeyMissingText(Upper(form[c].text))
            /\ \A k \in 1..Len(posts[c]) :
                form[c].route = "price" =>
                    posts[c][k].text = KeyMissingText(Upper(form[c].text))
            /\ \A k \in 1..Len(bl[c].lines) :
                bl[c].lines[k] = KeyMissingText(bl[c].snap[k])

\* an operation on the watchlist that has begun and is not over: a remove between
\* its test and its delete or between two symbols, an add between two symbols, a
\* listing between its emptiness test and its snapshot
InStore(c) ==
    \/ pc[H(c)] \in {"remove_check", "remove_del"}
    \/ pc[H(c)] \in {"add", "remove_test"} /\ hl[c].i > 1
    \/ pc[B(c)] = "wl_sorted"

\* C9: add, remove and list run under mutual exclusion: no two of them are under
\* way on the watchlist at the same time.
StoreMutex ==
    \A c, d \in Cmds : (c # d /\ InStore(c)) => ~InStore(d)

Elems(seq) == {seq[k] : k \in 1..Len(seq)}

\* C10: remove partitions its input: removed is the input symbols that were in the
\* store, missing those that were not, none is in both, none is left in the store.
RemovePartitions ==
    \A c \in Cmds :
        (form[c].route = "watchlist" /\ form[c].text = "remove" /\ pc[H(c)] = "returned") =>
            LET input == Elems(hl[c].tickers) IN
                /\ Elems(hl[c].removed) = input \cap hl[c].before
                /\ Elems(hl[c].missing) = input \ hl[c].before
                /\ Elems(hl[c].removed) \cap Elems(hl[c].missing) = {}
                /\ input \cap watchlist = {}

\* the symbols in upper case
Symbols == {"AAPL", "MSFT"}

\* a sequence of symbols in strictly ascending str order
Ascending(seq) == \A i, j \in 1..Len(seq) : i < j => Rank(seq[i]) < Rank(seq[j])

\* the snapshot a listing iterates over is the store, in lexicographic order
ListingInOrder ==
    \A c \in Cmds :
        bl[c].snap # <<>> =>
            /\ Ascending(bl[c].snap)
            /\ Elems(bl[c].snap) = watchlist

\* C11: add is idempotent and case-normalising: the store holds one upper-case entry
\* per symbol, adding a symbol puts its upper-case form in the store and changes
\* nothing when it is there already, add raises nothing, and a listing enumerates
\* the store in lexicographic order.
AddIdempotentNormalising ==
    /\ [](watchlist \subseteq Symbols)
    /\ []ListingInOrder
    /\ [][\A c \in Cmds :
            pc[H(c)] = "add" =>
                LET t == hl[c].tickers[hl[c].i] IN
                    /\ t \in Symbols
                    /\ watchlist' = watchlist \cup {t}
                    /\ t \in watchlist => watchlist' = watchlist
                    /\ pc'[H(c)] \in {"add", "returned"}
                    /\ pc'[H(c)] = "returned" => reply'[c].status = 200]_vars

\* add AAPL aapl has answered and the store holds the one entry AAPL
AddedBothCasesOnce ==
    \E c \in Cmds :
        /\ pc[H(c)] = "returned"
        /\ reply[c] = Json("in_channel", <<"Added: ", "AAPL", ", ", "AAPL">>)
        /\ watchlist = {"AAPL"}

\* the lines a listing can give a symbol
LinesFor(t) ==
    {<<t, ": rate limited (try later)">>, <<t, ": (no data)">>}
        \cup {<<t, ": $", Fmt2(Float(px)), " (latest daily close)">> : px \in DOMAIN FloatOf}
        \cup {GlobalText(t, <<Float(px), Float(chg), pct, "GLOBAL">>) :
                  px \in DOMAIN FloatOf, chg \in DOMAIN FloatOf, pct \in {"-0.63%", "0.00%"}}

\* C12: a listing over a non-empty watchlist renders one line per symbol, whatever
\* each symbol resolves to: no outcome of one symbol ends the loop (the thread goes
\* on to its text), and the text has a line for each symbol of the snapshot.
OneLinePerSymbol ==
    \A c \in Cmds :
        form[c].route = "watchlist" =>
            /\ pc[B(c)] # "died"
            /\ \A k \in 1..Len(bl[c].lines) : bl[c].lines[k] \in LinesFor(bl[c].snap[k])
            /\ (pc[B(c)] = "post" /\ bl[c].snap # <<>>) =>
                    /\ Len(bl[c].lines) = Len(bl[c].snap)
                    /\ bl[c].text = WatchlistText(bl[c].lines)

\* a live payload that is no quota notice and whose price field parses to a finite number
FinitePriceField(resp) ==
    /\ resp.net = "ok"
    /\ resp.body.type = "object"
    /\ ~IsQuotaNotice(resp)
    /\ resp.body.keys \cap {"Global Quote", "GlobalQuote"} # {}
    /\ resp.body.quote.type = "dict"
    /\ LET px == PyOr(resp.body.quote.f["05. price"], resp.body.quote.f["05.price"]) IN
         ~FloatRaises(px) /\ Finite(Float(px))

\* C13: a live payload with a finite price gives Live with that price and no call of
\* the daily-close fallback, whatever its change fields hold; and the price of every
\* Live or DailyClose result is finite and not negative.
FinitePriceIsLive ==
    \A t \in Threads :
        /\ (pc[t] # "fq_live" /\ FinitePriceField(fq[t].live)) =>
                /\ pc[t] = "fq_ret"
                /\ fq[t].q[4] = "GLOBAL"
                /\ fq[t].q[1] = Float(PyOr(fq[t].live.body.quote.f["05. price"],
                                            fq[t].live.body.quote.f["05.price"]))
                /\ fq[t].gets = <<"live">>
        /\ (pc[t] = "fq_ret" /\ fq[t].q[4] \in {"GLOBAL", "DAILY"}) =>
                Finite(fq[t].q[1]) /\ NonNegative(fq[t].q[1])

\* an upstream request made by the thread, or the answer to one
Upstream(t) == pc[t] \in {"fq_live", "fq_daily", "fq_ret", "fq_raise"}

\* C14: once an upstream response of a command has been classified as a quota
\* notice (the fast path got RateLimited), no further upstream request is made for
\* that command, by its handler or by its background thread.
QuotaNoticeEndsUpstream ==
    \A c \in Cmds :
        (form[c].route = "price" /\ hl[c].q = RateLimited) =>
            ~Upstream(H(c)) /\ ~Upstream(B(c))

\* a call that failed on the network or ran into its timeout
NetFailed(resp) == resp.net \in {"error", "timeout"}

\* the answers that hold no data: the empty object and the error message
NoDataResponses == {Ok(EmptyObj), Ok(ErrorMsg)}

\* C15: a network or timeout failure is handed to the resolver as a value distinct
\* from that of "no data": j of the live call differs from the j of an empty payload,
\* and what _daily_close returns differs from what it returns on an empty or error
\* payload.
NetworkFailureDistinct ==
    \A t \in Threads :
        /\ NetFailed(fq[t].live) =>
                LivePayload(fq[t].live) # LivePayload(Ok(EmptyObj))
        /\ NetFailed(fq[t].daily) =>
                \A r \in NoDataResponses : DailyCloseOf(fq[t].daily) # DailyCloseOf(r)

\* C16: a listing resolves its symbols one after another: the upstream request for
\* the i-th symbol of the snapshot is under way only when the i-1 symbols before it
\* have their lines and the i-1 pauses after them have elapsed, and it is the
\* listing's only request (its handler makes none).
ListingSequential ==
    \A c \in Cmds :
        (form[c].route = "watchlist" /\ Upstream(B(c))) =>
            /\ bl[c].i \in 1..Len(bl[c].snap)
            /\ fq[B(c)].ticker = bl[c].snap[bl[c].i]
            /\ Len(bl[c].lines) = bl[c].i - 1
            /\ bl[c].pauses = bl[c].i - 1
            /\ ~Upstream(H(c))

\* the request for the second symbol of a listing is under way
SecondSymbolRequested ==
    \E c \in Cmds :
        /\ form[c].route = "watchlist"
        /\ pc[B(c)] = "fq_live"
        /\ bl[c].snap = <<"AAPL", "MSFT">>
        /\ bl[c].i = 2
        /\ bl[c].pauses = 1
        /\ fq[B(c)].ticker = "MSFT"

\* the thread of a deferred command has been started, with a response_url to post to
DeferredStarted(c) == pc[B(c)] = "bg_start" /\ form[c].response_url # ""

\* C17: for every command that takes the deferred branch with a response_url, the
\* thread being scheduled fairly and every HTTP call ending by its timeout, exactly
\* one POST to the response_url is eventually attempted, whatever the upstream answers.
DeferredPostHappens ==
    /\ [](\A c \in Cmds : Len(posts[c]) <= 1)
    /\ \A c \in Cmds : DeferredStarted(c) ~> (Len(posts[c]) = 1)

\* the GETs of a fetch_quote call, at each point of the call
GetsOfCall(t) ==
    /\ pc[t] = "fq_live" => fq[t].gets = <<>>
    /\ pc[t] = "fq_daily" => fq[t].gets = <<"live">>
    /\ CallOver(t) => fq[t].gets \in {<<"live">>, <<"live", "daily">>}
    /\ ~Upstream(t) => fq[t].gets = <<>>

\* C18: a call of fetch_quote issues exactly one live GET and at most one daily-close
\* GET, the daily one after the live one has completed, neither repeated; and a
\* /price command calls fetch_quote once on the fast path (when the command arrives)
\* and at most once in its thread (when the thread starts): two GETs and two more.
OneLiveAtMostOneDaily ==
    /\ [](\A t \in Threads : GetsOfCall(t))
    /\ [][\A c \in Cmds :
            /\ (pc'[H(c)] = "fq_live" /\ pc[H(c)] # "fq_live") => pc[H(c)] = "idle"
            /\ (pc'[B(c)] = "fq_live" /\ pc[B(c)] # "fq_live" /\ form[c].route = "price")
                    => pc[B(c)] = "bg_start"
            /\ (pc'[B(c)] = "bg_start" /\ pc[B(c)] # "bg_start")
                    => (pc[B(c)] = "idle" /\ pc[H(c)] = "start_bg")]_vars

\* a /price command whose fast path made two GETs and whose thread has made two more
FourGetsInAll ==
    \E c \in Cmds :
        /\ form[c].route = "price"
        /\ hl[c].q = Unavailable
        /\ pc[B(c)] = "fq_ret"
        /\ fq[B(c)].gets = <<"live", "daily">>

\* a remove command under way or answered
IsRemove(c) == form[c].route = "watchlist" /\ form[c].text = "remove"

\* C19: however remove commands (and add commands) on the same symbols interleave,
\* each remove command completes with its reply and raises nothing.
RemoveNeverRaises ==
    \A c \in Cmds :
        IsRemove(c) =>
            /\ pc[H(c)] # "raised"
            /\ reply[c].status # 500

\* C20: the text of a listing is the 'Watchlist is empty' message if and only if
\* the listing renders no line: the header is never followed by zero lines.
EmptyIffNoLines ==
    \A c \in Cmds :
        (form[c].route = "watchlist" /\ pc[B(c)] = "post") =>
            /\ bl[c].text = EmptyText <=> bl[c].lines = <<>>
            /\ bl[c].text # WatchlistText(<<>>)

====
